---------------------------- MODULE Spec2Model ----------------------------
(***************************************************************************)
(* A model of skal (src/main.rs): a window whose creation callback asks    *)
(* for notification access and registers notification_handler with the     *)
(* host's UserNotificationListener, the handler itself, the TokenContainer *)
(* whose Drop unregisters, and main.                                       *)
(*                                                                         *)
(* Strings are TLA+ strings; a line printed with println! is one string.   *)
(* A host call's outcome is an input: the host answers are drawn from      *)
(* small sets.  MessageBox is taken to succeed (its unwrap never fires).   *)
(***************************************************************************)
EXTENDS Integers, Sequences, FiniteSets, TLC

VARIABLES
    pc,        \* position of the GUI/main thread in main and the wm_create closure
    status,    \* "running", or how the process ended
    token_ptr, \* MainWindow.token_ptr: <<>> (None) or <<h>> (Some(handle h))
    boot,      \* main's _token: <<>> until the second setup_listener succeeded
    handles,   \* every TokenContainer ever built: [token, reg, state]
    registered,\* the host's active registrations (token values)
    hostCalls, \* register / unregister calls the host has seen, in order
    access,    \* the host's answer to the access request and get_access's result
    dialogs,   \* message boxes shown, in order
    stdout,    \* lines printed by the GUI/main thread
    fatal,     \* <<>> or <<message>>: the error that ended the process
    ev,        \* the event last delivered to notification_handler (or Nil)
    hres       \* what notification_handler did with it

vars == <<pc, status, token_ptr, boot, handles, registered, hostCalls, access,
          dialogs, stdout, fatal, ev, hres>>

(***************************************************************************)
(* Bounds of the model.                                                    *)
(***************************************************************************)
MaxElems == 3

MaxToken == 3

(***************************************************************************)
(* Decimal formatting, as {:02} of an unsigned integer does it.            *)
(***************************************************************************)
Digit(n) == SubSeq("0123456789", n + 1, n + 1)

RECURSIVE Dec(_)
Dec(n) == IF n < 10 THEN Digit(n) ELSE Dec(n \div 10) \o Digit(n % 10)

Fmt02(n) == IF n < 10 THEN "0" \o Dec(n) ELSE Dec(n)

(***************************************************************************)
(* The creation time.  UniversalTime is an i64; it is kept as two limbs,   *)
(* value = hi * 86400 + lo, so that values beyond chrono's range can be    *)
(* written.  timestamp_opt splits the value with div_euclid / rem_euclid   *)
(* into days and second of day and rejects a day outside NaiveDate's range.*)
(***************************************************************************)
SecsPerDay == 86400

MinDays == -96465658

MaxDays == 95026601

TsDays(t) == t.hi + (t.lo \div SecsPerDay)

TsSecs(t) == t.lo % SecsPerDay

timestamp_opt(t) ==
    IF MinDays <= TsDays(t) /\ TsDays(t) <= MaxDays
    THEN [some |-> TRUE, secs |-> TsSecs(t)]
    ELSE [some |-> FALSE, secs |-> 0]

\* Timelike::hour / minute of the UTC time of day
hour(secs) == secs \div 3600

minute(secs) == (secs \div 60) % 60

hour12_zero(secs) == [is_pm |-> hour(secs) >= 12, hour |-> hour(secs) % 12]

\* Timelike::hour12: (is_pm, hour in 1..12)
hour12(secs) ==
    [is_pm |-> hour(secs) >= 12,
     hour  |-> IF hour(secs) % 12 = 0 THEN 12 ELSE hour(secs) % 12]


(***************************************************************************)
(* An incoming event, as the host would answer for it:                     *)
(*   ev    = [sender : BOOLEAN, args : <<>> or <<a>>]                      *)
(*   a     = [kind, id : BOOLEAN, notif : <<>> or <<n>>]                   *)
(*   n     = [name, time, elems], each [fail, val]: fail names the host    *)
(*           call of that chain that returns Err ("" when none does)       *)
(*   elems.val is a sequence of [ok, text]: Text() of one text element     *)
(***************************************************************************)
NameChain == <<"AppInfo", "DisplayInfo", "DisplayName">>

TimeChain == <<"CreationTime">>

ElemChain == <<"ToastGeneric", "Notification", "Visual", "GetBinding",
               "GetTextElements">>

\* the calls of a chain that are made: up to and including the failing one
RECURSIVE CallsUpTo(_, _)
CallsUpTo(chain, fail) ==
    IF chain = <<>> THEN <<>>
    ELSE IF Head(chain) = fail THEN <<fail>>
    ELSE <<Head(chain)>> \o CallsUpTo(Tail(chain), fail)

MsgMissing == "Error: one or more of expected handler params were missing"

MsgRemoved == "Warning: notification was removed"

MsgUnknownKind == "Error: unknown notification change kind"

MsgUnresolved == "Error: could not resolve notification"

ElemTextSkip(e) == IF e.ok THEN e.text ELSE ""

\* e.Text().and_then(|t| Ok(t.to_string())).unwrap_or("\n".to_string())
ElemText(e) == IF e.ok THEN e.text ELSE "\n"

\* .map(...).collect::<String>()
RECURSIVE CollectText(_)
CollectText(elems) ==
    IF elems = <<>> THEN "" ELSE ElemText(Head(elems)) \o CollectText(Tail(elems))

\* println!("{}, at {:02}:{:02} {}: {}", app_name, hour, time.minute(), AM/PM, text)
FormatLine(app_name, secs, text) ==
    app_name \o ", at " \o Fmt02(hour12(secs).hour) \o ":" \o Fmt02(minute(secs))
             \o " " \o (IF hour12(secs).is_pm THEN "PM" ELSE "AM") \o ": " \o text

HRes(res, out, calls) == [res |-> res, out |-> out, calls |-> calls]

\* lines 137-173: the notification resolved; calls are the host calls made so far
Extract(n, calls) ==
    LET c1 == calls \o CallsUpTo(NameChain, n.name.fail)
        c2 == c1 \o CallsUpTo(TimeChain, n.time.fail)
        ts == timestamp_opt(n.time.val)
        c3 == c2 \o CallsUpTo(ElemChain, n.elems.fail)
        c4 == c3 \o [i \in 1..Len(n.elems.val) |-> "Text"]
    IN  IF n.name.fail # "" THEN HRes("Err", <<>>, c1)
        ELSE IF n.time.fail # "" THEN HRes("Err", <<>>, c2)
        ELSE IF ~ts.some THEN HRes("Panic", <<>>, c2)
        ELSE IF n.elems.fail # "" THEN HRes("Err", <<>>, c3)
        ELSE HRes("Ok",
                  <<FormatLine(n.name.val, ts.secs, CollectText(n.elems.val))>>,
                  c4)

ParamsMissingArgsOnly(e) == e.args = <<>>

\* lines 109-115: (Some(listener), Some(a)) does not match
ParamsMissing(e) == ~e.sender \/ e.args = <<>>

IsRemovedNever(kind) == FALSE

\* line 118: Ok(UserNotificationChangedKind::Removed)
IsRemoved(kind) == kind = "Removed"

IsAddedAny(kind) == TRUE

\* line 122: Ok(UserNotificationChangedKind::Added); anything else is the _ arm
IsAdded(kind) == kind = "Added"

notification_handler(e) ==
    IF ParamsMissing(e) THEN HRes("Ok", <<MsgMissing>>, <<>>)
    ELSE LET a == e.args[1] IN
         IF IsRemoved(a.kind) THEN HRes("Ok", <<MsgRemoved>>, <<"ChangeKind">>)
         ELSE IF ~IsAdded(a.kind)
              THEN HRes("Panic", <<MsgUnknownKind>>, <<"ChangeKind">>)
         ELSE IF ~a.id
              THEN HRes("Err", <<>>, <<"ChangeKind", "UserNotificationId">>)
         ELSE IF a.notif = <<>>
              THEN HRes("Ok", <<MsgUnresolved>>,
                        <<"ChangeKind", "UserNotificationId", "GetNotification">>)
         ELSE Extract(a.notif[1],
                      <<"ChangeKind", "UserNotificationId", "GetNotification">>)

(***************************************************************************)
(* Errors.  An HRESULT is kept as two 16-bit limbs [hi, lo].               *)
(***************************************************************************)
\* HRESULT::from_win32: a value that is already negative as i32 (or zero) is
\* kept, any other becomes 0x8007xxxx
from_win32(e) ==
    IF e.hi >= 32768 \/ (e.hi = 0 /\ e.lo = 0) THEN e
    ELSE [hi |-> 32775, lo |-> e.lo]

\* Error::new(HRESULT::from_win32(0x80070005), "Notification access not granted")
NotGranted ==
    [code |-> from_win32([hi |-> 32775, lo |-> 5]),
     msg  |-> "Notification access not granted"]

\* an error the host returns from the named call
HostError(call) == [code |-> [hi |-> 32768, lo |-> 16389], msg |-> call \o " failed"]

NoError == [code |-> [hi |-> 0, lo |-> 0], msg |-> ""]

\* e.to_string()
to_string(e) == e.msg

UnwrapMsg(e) == "called Result::unwrap() on an Err value: " \o e.msg

(***************************************************************************)
(* get_access.  The host's answer r = [fail, status]: fail names the call  *)
(* that returns Err (Current, RequestAccessAsync, the await), "" when the  *)
(* request resolves with status.                                           *)
(***************************************************************************)
AccessStatuses == {"Allowed", "Denied", "Unspecified", "Other"}

AccessAnswers ==
    {[fail |-> f, status |-> "Unspecified"] :
        f \in {"Current", "RequestAccessAsync", "await"}}
    \cup {[fail |-> "", status |-> st] : st \in AccessStatuses}

get_access_lenient(r) ==
    IF r.fail # "" THEN [ok |-> FALSE, err |-> HostError(r.fail)]
    ELSE IF r.status # "Denied" THEN [ok |-> TRUE, err |-> NoError]
    ELSE [ok |-> FALSE, err |-> NotGranted]

get_access(r) ==
    IF r.fail # "" THEN [ok |-> FALSE, err |-> HostError(r.fail)]
    ELSE IF r.status = "Allowed" THEN [ok |-> TRUE, err |-> NoError]
    ELSE [ok |-> FALSE, err |-> NotGranted]

(***************************************************************************)
(* Dialogs.                                                                *)
(***************************************************************************)
InfoDialog ==
    [text |-> "Ready to receive notifications", title |-> "Access granted",
     icon |-> "ICONINFORMATION"]

ErrorDialog(e) ==
    [text |-> to_string(e), title |-> "Uncaught error", icon |-> "ICONERROR"]

\* the dialog alone: the caller goes on as if the call had returned
error_dialog_no_quit(e) ==
    /\ dialogs' = Append(dialogs, ErrorDialog(e))
    /\ status' = status
    /\ fatal' = fatal
    /\ pc' = IF pc = "run" THEN "create_setup" ELSE "done"

\* error_dialog_and_quit: the dialog, then ExitThread(1); nothing is dropped
error_dialog_and_quit(e) ==
    /\ dialogs' = Append(dialogs, ErrorDialog(e))
    /\ status' = "exit1"
    /\ fatal' = <<e.msg>>
    /\ pc' = "done"

(***************************************************************************)
(* setup_listener.  The host's answer r = [fail, token]: fail names the    *)
(* call that returns Err (Current, NotificationChanged), token is the      *)
(* token a successful registration returns.  by is the TokenContainer the  *)
(* call belongs to (0 for a registration that failed).                     *)
(***************************************************************************)
Tokens == 1..MaxToken

SetupAnswers ==
    {[fail |-> f, token |-> 0] : f \in {"Current", "NotificationChanged"}}
    \cup {[fail |-> "", token |-> t] : t \in Tokens \ registered}

RegisterCall(r) ==
    [op |-> "register", token |-> r.token, ok |-> r.fail = "",
     by |-> IF r.fail = "" THEN Len(handles) + 1 ELSE 0]

\* println!("got listener"), once the listener was obtained
SetupOut(r) == IF r.fail = "Current" THEN <<>> ELSE <<"got listener">>

\* the effect of setup_listener on the host; its result is Ok(TokenContainer)
\* exactly when r.fail = "", and Err(HostError(r.fail)) otherwise
setup_listener(r) ==
    /\ hostCalls' = IF r.fail = "Current" THEN hostCalls
                    ELSE Append(hostCalls, RegisterCall(r))
    /\ registered' = IF r.fail = "" THEN registered \cup {r.token} ELSE registered
    /\ handles' = IF r.fail = "" THEN Append(handles, [token |-> r.token, state |-> "alive"])
                  ELSE handles

(***************************************************************************)
(* TokenContainer::drop of handle h.  The host's answer r names the call   *)
(* that returns Err (Current, RemoveNotificationChanged), "" when none.    *)
(* Either unwrap panics on an Err.                                         *)
(***************************************************************************)
DropAnswers == {"", "Current", "RemoveNotificationChanged"}

DropTokenWrong(h) == 0

\* the token drop passes to RemoveNotificationChanged
DropToken(h) == handles[h].token

DropCalls(h, r) ==
    IF r = "Current" THEN <<>>
    ELSE <<[op |-> "unregister", token |-> DropToken(h), ok |-> r = "", by |-> h]>>

TokenContainer_drop(h, r) ==
    /\ hostCalls' = hostCalls \o DropCalls(h, r)
    /\ registered' = IF r = "" THEN registered \ {DropToken(h)} ELSE registered
    /\ handles' = [handles EXCEPT ![h].state = IF r = "" THEN "released" ELSE "dropfailed"]

(***************************************************************************)
(* The events the dispatcher may deliver.                                  *)
(***************************************************************************)
Names == {"Mail", ""}

Texts == {"Title", "Body"}

Elems == {[ok |-> TRUE, text |-> t] : t \in Texts} \cup {[ok |-> FALSE, text |-> ""]}

ElemLists(n) == UNION {[1..k -> Elems] : k \in 0..n}

Time(hi, lo) == [hi |-> hi, lo |-> lo]

\* 1700000000 = 19675 * 86400 + 80000; one day past either end of chrono's range
StructTimes == {Time(19675, 80000), Time(MaxDays + 1, 0), Time(MinDays - 1, 86399)}

Results(chain, vals, none) ==
    {[fail |-> "", val |-> v] : v \in vals}
    \cup {[fail |-> chain[i], val |-> none] : i \in 1..Len(chain)}

Notifs(names, times, lists) ==
    [name  : Results(NameChain, names, ""),
     time  : Results(TimeChain, times, Time(0, 0)),
     elems : Results(ElemChain, lists, <<>>)]

Kinds == {"Added", "Removed", "Other", "Err"}

EventsOver(notifs) ==
    [sender : BOOLEAN,
     args   : {<<>>} \cup
              {<<a>> : a \in [kind  : Kinds, id : BOOLEAN,
                              notif : {<<>>} \cup {<<n>> : n \in notifs}]}]

\* every shape of event, over a few names, times and element lists
StructEvents == EventsOver(Notifs(Names, StructTimes, ElemLists(MaxElems)))

\* well-formed Added events over many creation times
TimeHis == {-1, 0, 19675, MinDays, MaxDays, MinDays - 1, MaxDays + 1}

TimeLos == {60 * k : k \in -1..1441} \cup {59, 3599, 43199, 86399}

TimeEvents ==
    {[sender |-> TRUE,
      args |-> <<[kind |-> "Added", id |-> TRUE,
                  notif |-> <<[name  |-> [fail |-> "", val |-> "Mail"],
                               time  |-> [fail |-> "", val |-> Time(hi, lo)],
                               elems |-> [fail |-> "",
                                          val |-> <<[ok |-> TRUE,
                                                     text |-> "You have a new message"]>>]]>>]>>]
     : hi \in TimeHis, lo \in TimeLos}

Events == StructEvents \cup TimeEvents

\* the events delivered while the program runs: every shape of event
LifeEvents ==
    EventsOver(Notifs({"Mail"}, {Time(19675, 80000), Time(MaxDays + 1, 0)},
                      ElemLists(1)))

(***************************************************************************)
(* The program.                                                            *)
(***************************************************************************)
NoResult == HRes("none", <<>>, <<>>)

\* after MainWindow::new(): token_ptr is None, nothing is registered
Init ==
    /\ pc = "run"
    /\ status = "running"
    /\ token_ptr = <<>>
    /\ boot = <<>>
    /\ handles = <<>>
    /\ registered = {}
    /\ hostCalls = <<>>
    /\ access = <<>>
    /\ dialogs = <<>>
    /\ stdout = <<>>
    /\ fatal = <<>>
    /\ ev = <<>>
    /\ hres = NoResult

\* a panic on the main thread
Panic(msg) ==
    /\ status' = "panicked"
    /\ fatal' = <<msg>>
    /\ pc' = "done"
    /\ UNCHANGED dialogs

\* wm_create, lines 63-75: block_on(get_access())
WmCreateAccess(r) ==
    /\ status = "running" /\ pc = "run"
    /\ access' = <<[answer |-> r, result |-> get_access(r)]>>
    /\ IF get_access(r).ok
       THEN /\ dialogs' = Append(dialogs, InfoDialog)
            /\ pc' = "create_setup"
            /\ UNCHANGED <<status, fatal>>
       ELSE error_dialog_and_quit(get_access(r).err)
    /\ UNCHANGED <<token_ptr, boot, handles, registered, hostCalls, stdout, ev, hres>>

\* wm_create, line 76: setup_listener()
WmCreateSetup(r) ==
    /\ status = "running" /\ pc = "create_setup"
    /\ setup_listener(r)
    /\ stdout' = stdout \o SetupOut(r)
    /\ IF r.fail = ""
       THEN pc' = "create_store" /\ UNCHANGED <<dialogs, status, fatal>>
       ELSE error_dialog_and_quit(HostError(r.fail))
    /\ UNCHANGED <<token_ptr, boot, access, ev, hres>>

\* wm_create, line 78: self_2.token_ptr.lock().unwrap(); the guard is held
WmCreateLock ==
    /\ status = "running" /\ pc = "create_store"
    /\ pc' = "create_locked"
    /\ UNCHANGED <<status, token_ptr, boot, handles, registered, hostCalls, access,
                   dialogs, stdout, fatal, ev, hres>>

WmCreateStoreNothing ==
    /\ status = "running" /\ pc = "create_locked"
    /\ pc' = "loop"
    /\ UNCHANGED <<status, token_ptr, boot, handles, registered, hostCalls, access,
                   dialogs, stdout, fatal, ev, hres>>

\* wm_create, lines 79-83: *token_ptr = Some(token); the guard is dropped and
\* the closure returns Ok(0)
WmCreateStore ==
    /\ status = "running" /\ pc = "create_locked"
    /\ token_ptr' = <<Len(handles)>>
    /\ pc' = "loop"
    /\ UNCHANGED <<status, boot, handles, registered, hostCalls, access, dialogs,
                   stdout, fatal, ev, hres>>

\* the error is shown and main goes on to the second setup_listener()
RunErrorContinues ==
    /\ status = "running" /\ pc \in {"run", "loop"}
    /\ dialogs' = Append(dialogs, ErrorDialog(HostError("run_main")))
    /\ fatal' = <<HostError("run_main").msg>>
    /\ pc' = "second_setup"
    /\ UNCHANGED <<status, token_ptr, boot, handles, registered, hostCalls, access,
                   stdout, ev, hres>>

\* main, lines 212-213: run_main returns Err
RunError ==
    /\ status = "running" /\ pc \in {"run", "loop"}
    /\ error_dialog_and_quit(HostError("run_main"))
    /\ UNCHANGED <<token_ptr, boot, handles, registered, hostCalls, access, stdout,
                   ev, hres>>

\* main, line 214: the window closed, run_main returns Ok
LoopExit ==
    /\ status = "running" /\ pc = "loop"
    /\ pc' = "after_run"
    /\ UNCHANGED <<status, token_ptr, boot, handles, registered, hostCalls, access,
                   dialogs, stdout, fatal, ev, hres>>

\* main, line 215: the MainWindow temporary is dropped and token_ptr with it
DropWindowRelease(r) ==
    /\ status = "running" /\ pc = "after_run"
    /\ TokenContainer_drop(token_ptr[1], r)
    /\ token_ptr' = <<>>
    /\ IF r = "" THEN pc' = "second_setup" /\ UNCHANGED <<status, fatal, dialogs>>
       ELSE Panic(UnwrapMsg(HostError(r)))
    /\ UNCHANGED <<boot, access, stdout, ev, hres>>

\* main, line 215: the wm_create closure stored in the window still holds a
\* clone of the MainWindow (self_2), so token_ptr is not freed
DropWindowLeak ==
    /\ status = "running" /\ pc = "after_run"
    /\ pc' = "second_setup"
    /\ UNCHANGED <<status, token_ptr, boot, handles, registered, hostCalls, access,
                   dialogs, stdout, fatal, ev, hres>>

\* main, lines 217-223: the second setup_listener()
MainSetup(r) ==
    /\ status = "running" /\ pc = "second_setup"
    /\ setup_listener(r)
    /\ IF r.fail = ""
       THEN /\ boot' = <<Len(handles) + 1>>
            /\ stdout' = stdout \o SetupOut(r)
            /\ pc' = "print"
            /\ UNCHANGED <<status, fatal, dialogs>>
       ELSE /\ stdout' = stdout \o SetupOut(r) \o <<to_string(HostError(r.fail))>>
            /\ Panic("explicit panic")
            /\ UNCHANGED boot
    /\ UNCHANGED <<token_ptr, access, ev, hres>>

\* main, line 225
MainPrint ==
    /\ status = "running" /\ pc = "print"
    /\ stdout' = Append(stdout, "Listener registered")
    /\ pc' = "return"
    /\ UNCHANGED <<status, token_ptr, boot, handles, registered, hostCalls, access,
                   dialogs, fatal, ev, hres>>

\* main returns without _token being dropped
MainReturnNoDrop(r) ==
    /\ status = "running" /\ pc = "return"
    /\ boot' = <<>>
    /\ status' = "returned" /\ pc' = "done"
    /\ UNCHANGED <<token_ptr, handles, registered, hostCalls, access, dialogs,
                   stdout, fatal, ev, hres>>

\* main, lines 227-228: Ok(()) and _token is dropped
MainReturn(r) ==
    /\ status = "running" /\ pc = "return"
    /\ TokenContainer_drop(boot[1], r)
    /\ boot' = <<>>
    /\ IF r = ""
       THEN status' = "returned" /\ pc' = "done" /\ UNCHANGED <<fatal, dialogs>>
       ELSE Panic(UnwrapMsg(HostError(r)))
    /\ UNCHANGED <<token_ptr, access, stdout, ev, hres>>

\* the GUI thread holds the mutex of token_ptr
LockHeld == pc = "create_locked"

\* a handler that takes the mutex of token_ptr: it waits while the lock is held
DispatchLocking(e) ==
    /\ ~LockHeld
    /\ hres' = notification_handler(e)
    /\ IF notification_handler(e).res = "Panic"
       THEN status' = "aborted" /\ fatal' = <<"notification_handler panicked">>
       ELSE UNCHANGED <<status, fatal>>
    /\ UNCHANGED <<pc, token_ptr, boot, handles, registered, hostCalls, access,
                   dialogs, stdout, ev>>

\* the dispatcher calls notification_handler(e); a panic in it ends the process
Dispatch(e) ==
    /\ hres' = notification_handler(e)
    /\ IF notification_handler(e).res = "Panic"
       THEN status' = "aborted" /\ fatal' = <<"notification_handler panicked">>
       ELSE UNCHANGED <<status, fatal>>
    /\ UNCHANGED <<pc, token_ptr, boot, handles, registered, hostCalls, access,
                   dialogs, stdout, ev>>

\* an event arrives while a registration is active
Deliver(e) ==
    /\ status = "running" /\ registered # {}
    /\ Dispatch(e)

Next ==
    \/ \E r \in AccessAnswers : WmCreateAccess(r)
    \/ \E r \in SetupAnswers : WmCreateSetup(r)
    \/ WmCreateLock
    \/ WmCreateStore
    \/ RunError
    \/ LoopExit
    \/ \E r \in DropAnswers : DropWindowRelease(r)
    \/ DropWindowLeak
    \/ \E r \in SetupAnswers : MainSetup(r)
    \/ MainPrint
    \/ \E r \in DropAnswers : MainReturn(r)
    \/ \E e \in LifeEvents : Deliver(e)

Spec == Init /\ [][Next]_vars

(***************************************************************************)
(* The handler alone: the window's registration is active (the state after *)
(* wm_create succeeded), one event is drawn and delivered.                 *)
(***************************************************************************)
InitHandler ==
    /\ pc = "loop"
    /\ status = "running"
    /\ token_ptr = <<1>>
    /\ boot = <<>>
    /\ handles = <<[token |-> 1, state |-> "alive"]>>
    /\ registered = {1}
    /\ hostCalls = <<[op |-> "register", token |-> 1, ok |-> TRUE, by |-> 1]>>
    /\ access = <<[answer |-> [fail |-> "", status |-> "Allowed"],
                   result |-> [ok |-> TRUE, err |-> NoError]]>>
    /\ dialogs = <<InfoDialog>>
    /\ stdout = <<"got listener">>
    /\ fatal = <<>>
    /\ ev \in {<<e>> : e \in Events}
    /\ hres = NoResult

Handle ==
    /\ status = "running" /\ registered # {}
    /\ ev # <<>> /\ hres = NoResult
    /\ Dispatch(ev[1])

NextHandler == Handle

HandlerSpec == InitHandler /\ [][NextHandler]_vars

(***************************************************************************)
(* Properties.                                                             *)
(***************************************************************************)
\* the output pattern "Name, at HH:MM AM|PM: Body", HH in 01..12, MM in 00..59
HourStrs == {"01", "02", "03", "04", "05", "06", "07", "08", "09", "10", "11", "12"}

MinStrs == {a \o b : a \in {"0", "1", "2", "3", "4", "5"},
                     b \in {"0", "1", "2", "3", "4", "5", "6", "7", "8", "9"}}

IsFormatted(line) ==
    \E i \in 0..(Len(line) - 15) :
        /\ SubSeq(line, i + 1, i + 5) = ", at "
        /\ SubSeq(line, i + 6, i + 7) \in HourStrs
        /\ SubSeq(line, i + 8, i + 8) = ":"
        /\ SubSeq(line, i + 9, i + 10) \in MinStrs
        /\ SubSeq(line, i + 11, i + 11) = " "
        /\ SubSeq(line, i + 12, i + 13) \in {"AM", "PM"}
        /\ SubSeq(line, i + 14, i + 15) = ": "

FormattedLines(out) == {i \in 1..Len(out) : IsFormatted(out[i])}

\* the event drawn has been handled
Handled == ev # <<>> /\ hres # NoResult

HasArgs == ev # <<>> /\ ev[1].sender /\ ev[1].args # <<>>

\* sender and args present, kind Added, the notification resolves and every
\* extraction call succeeds
WellFormedAdded ==
    /\ HasArgs
    /\ ev[1].args[1].kind = "Added"
    /\ ev[1].args[1].id
    /\ ev[1].args[1].notif # <<>>
    /\ ev[1].args[1].notif[1].name.fail = ""
    /\ ev[1].args[1].notif[1].time.fail = ""
    /\ ev[1].args[1].notif[1].elems.fail = ""

TheNotif == ev[1].args[1].notif[1]

\* C1: get_access succeeds iff the access request resolved as Allowed; for any
\* other resolved status it returns the error with the fixed non-empty message
\* "Notification access not granted" and the access-denied code 0x80070005.
C1_AccessIffAllowed ==
    access # <<>> =>
        /\ access[1].result.ok <=>
              (access[1].answer.fail = "" /\ access[1].answer.status = "Allowed")
        /\ (access[1].answer.fail = "" /\ access[1].answer.status # "Allowed") =>
              /\ access[1].result.err.msg = "Notification access not granted"
              /\ Len(access[1].result.err.msg) > 0
              /\ access[1].result.err.code = [hi |-> 32775, lo |-> 5]

C1_Witness ==
    /\ access # <<>>
    /\ access[1].answer = [fail |-> "", status |-> "Unspecified"]
    /\ ~access[1].result.ok
    /\ status = "exit1"

\* C2: a handled event with sender and args present, kind Added, a notification
\* that resolves and all extraction calls succeeding produced exactly one
\* formatted line and returned success.
C2_AddedEmitsOneLine ==
    (Handled /\ WellFormedAdded) =>
        /\ hres.res = "Ok"
        /\ Cardinality(FormattedLines(hres.out)) = 1
        /\ Len(hres.out) = 1

\* C3: a handled Removed event (sender and args present) produced no formatted
\* line, returned success, and the notification was never resolved.
C3_RemovedIsNoOp ==
    (Handled /\ HasArgs /\ ev[1].args[1].kind = "Removed") =>
        /\ hres.res = "Ok"
        /\ FormattedLines(hres.out) = {}
        /\ \A i \in 1..Len(hres.calls) : hres.calls[i] # "GetNotification"

C3_Witness ==
    /\ Handled /\ HasArgs
    /\ ev[1].args[1].kind = "Removed"
    /\ ev[1].args[1].id
    /\ ev[1].args[1].notif # <<>>
    /\ hres.res = "Ok"

\* C4: a handled event with sender absent, args absent or both absent produced
\* no formatted line, made no host call, and returned success.
C4_MissingParamsNoOp ==
    (Handled /\ ~HasArgs) =>
        /\ hres.res = "Ok"
        /\ FormattedLines(hres.out) = {}
        /\ hres.calls = <<>>

C4_Witness ==
    /\ Handled
    /\ ~ev[1].sender
    /\ ev[1].args # <<>>
    /\ ev[1].args[1].kind = "Added"
    /\ ev[1].args[1].notif # <<>>
    /\ hres.res = "Ok"

\* The same, for creation times chrono can represent (a lemma, for the model).
AddedInRangeEmitsOneLine ==
    (Handled /\ WellFormedAdded /\ timestamp_opt(TheNotif.time.val).some) =>
        /\ hres.res = "Ok"
        /\ Cardinality(FormattedLines(hres.out)) = 1
        /\ Len(hres.out) = 1

\* two-digit decimal numerals, written out
TwoDigits ==
    <<"00", "01", "02", "03", "04", "05", "06", "07", "08", "09",
      "10", "11", "12", "13", "14", "15", "16", "17", "18", "19",
      "20", "21", "22", "23", "24", "25", "26", "27", "28", "29",
      "30", "31", "32", "33", "34", "35", "36", "37", "38", "39",
      "40", "41", "42", "43", "44", "45", "46", "47", "48", "49",
      "50", "51", "52", "53", "54", "55", "56", "57", "58", "59">>

\* the creation times whose value in seconds is computed below: |t| < 2^31
SmallTime(t) == -20000 <= t.hi /\ t.hi <= 20000

EpochSecs(t) == t.hi * SecsPerDay + t.lo

\* the clock text the claim gives for t epoch seconds
ClockOf(t) ==
    LET h24 == (t \div 3600) % 24
        h12 == IF h24 % 12 = 0 THEN 12 ELSE h24 % 12
    IN  TwoDigits[h12 + 1] \o ":" \o TwoDigits[((t \div 60) % 60) + 1] \o " "
        \o (IF h24 >= 12 THEN "PM" ELSE "AM")

\* C5: for a creation time of t epoch seconds the line shows, after the name,
\* the 12-hour conversion of (t div 3600) mod 24 (never "00"), the minute
\* (t div 60) mod 60, both as two digits, and PM exactly when the 24-hour hour
\* is at least 12; t = 1700000000 shows "10:13 PM".
C5_ClockRendering ==
    (Handled /\ WellFormedAdded /\ SmallTime(TheNotif.time.val)) =>
        /\ hres.res = "Ok"
        /\ Len(hres.out) = 1
        /\ SubSeq(hres.out[1], 1, Len(TheNotif.name.val) + 15)
             = TheNotif.name.val \o ", at "
               \o ClockOf(EpochSecs(TheNotif.time.val)) \o ": "
        /\ SubSeq(hres.out[1], Len(TheNotif.name.val) + 6,
                  Len(TheNotif.name.val) + 7) # "00"
        /\ EpochSecs(TheNotif.time.val) = 1700000000 =>
             SubSeq(hres.out[1], Len(TheNotif.name.val) + 6,
                    Len(TheNotif.name.val) + 13) = "10:13 PM"

\* midnight of 1970-01-01 is rendered 12:00 AM
C5_Witness ==
    /\ Handled /\ WellFormedAdded
    /\ TheNotif.time.val = Time(0, 0)
    /\ hres.out = <<"Mail, at 12:00 AM: You have a new message">>

\* the body the claim gives for a list of text elements: left to right, the
\* element's string when it resolves, one newline when it does not
RECURSIVE BodyOf(_, _)
BodyOf(elems, k) ==
    IF k = 0 THEN ""
    ELSE BodyOf(elems, k - 1) \o (IF elems[k].ok THEN elems[k].text ELSE "\n")

GotTextElements ==
    \E i \in 1..Len(hres.calls) : hres.calls[i] = "GetTextElements"

\* C6: once the handler has the list of text elements, it returns success with
\* one line whose body is the concatenation, in element order, of each
\* element's string when it resolves and of one newline when it does not.
C6_BodyConcatenation ==
    (Handled /\ WellFormedAdded /\ GotTextElements) =>
        LET body == BodyOf(TheNotif.elems.val, Len(TheNotif.elems.val))
            line == hres.out[1]
        IN  /\ hres.res = "Ok"
            /\ Len(hres.out) = 1
            /\ Len(line) = Len(TheNotif.name.val) + 15 + Len(body)
            /\ SubSeq(line, Len(line) - Len(body) + 1, Len(line)) = body

C6_Witness ==
    /\ Handled /\ WellFormedAdded
    /\ TheNotif.elems.val = <<[ok |-> TRUE, text |-> "Title"],
                              [ok |-> FALSE, text |-> ""],
                              [ok |-> TRUE, text |-> "Body"]>>
    /\ hres.res = "Ok"
    /\ hres.out = <<"Mail, at 10:13 PM: Title\nBody">>

\* the host calls of handle h
CallsOf(h, op) ==
    {i \in 1..Len(hostCalls) : hostCalls[i].by = h /\ hostCalls[i].op = op}

\* C7: for every handle that a successful subscribe created and that has been
\* released, the host saw exactly one register call and exactly one unregister
\* call of it, the register first, both with the token the register returned.
C7_RegisterThenUnregister ==
    \A h \in 1..Len(handles) :
        handles[h].state = "released" =>
            /\ Cardinality(CallsOf(h, "register")) = 1
            /\ Cardinality(CallsOf(h, "unregister")) = 1
            /\ \A i \in CallsOf(h, "register"), j \in CallsOf(h, "unregister") :
                  /\ i < j
                  /\ hostCalls[i].ok
                  /\ hostCalls[j].token = hostCalls[i].token

\* both handles were released, the window's before the second was created
C7_Witness ==
    /\ Len(handles) = 2
    /\ handles[1].state = "released"
    /\ handles[2].state = "released"
    /\ status = "returned"
    /\ registered = {}

\* C8: once a subscription is active, a delivered event leaves the process
\* running and the registrations as they were.
C8_EventsNeverTerminate ==
    [][(\E e \in LifeEvents : Deliver(e))
         => (status' = "running" /\ registered' = registered)]_vars

\* C9: whenever the process has ended on a fatal error, an error dialog with
\* that error's message has been shown.
C9_FatalShowsDialog ==
    fatal # <<>> =>
        \E i \in 1..Len(dialogs) :
            dialogs[i].icon = "ICONERROR" /\ dialogs[i].text = fatal[1]

\* C10: when the program has ended, on any exit path, every token registered
\* has been unregistered exactly once and no registration is left active.
C10_AllReleasedAtExit ==
    status # "running" =>
        /\ registered = {}
        /\ \A h \in 1..Len(handles) :
              Cardinality({i \in CallsOf(h, "unregister") : hostCalls[i].ok}) = 1

RegisterCalls == {i \in 1..Len(hostCalls) : hostCalls[i].op = "register"}

\* C11: a register call is issued only after the access request resolved as
\* granted and the acknowledgement was shown; when the access request fails no
\* register call is ever issued and the program ends with status 1.
C11_AccessBeforeSubscribe ==
    /\ RegisterCalls # {} =>
          /\ access # <<>>
          /\ access[1].result.ok
          /\ dialogs # <<>>
          /\ dialogs[1] = InfoDialog
    /\ (access # <<>> /\ ~access[1].result.ok) =>
          /\ hostCalls = <<>>
          /\ handles = <<>>
          /\ status = "exit1"
          /\ dialogs = <<ErrorDialog(access[1].result.err)>>

\* access was denied: the error dialog, exit status 1, and no register call
C11_Witness ==
    /\ access # <<>>
    /\ access[1].answer = [fail |-> "", status |-> "Denied"]
    /\ status = "exit1"
    /\ dialogs = <<ErrorDialog(NotGranted)>>
    /\ hostCalls = <<>>

\* C12: a handled event with sender and args present whose change kind is
\* neither Added nor Removed aborted the process by a panic, with no formatted
\* line and without resolving the notification.
C12_UnknownKindAborts ==
    (Handled /\ HasArgs /\ ev[1].args[1].kind = "Other") =>
        /\ hres.res = "Panic"
        /\ status = "aborted"
        /\ FormattedLines(hres.out) = {}
        /\ \A i \in 1..Len(hres.calls) :
              hres.calls[i] \notin {"UserNotificationId", "GetNotification"}

C12_Witness ==
    /\ Handled /\ HasArgs
    /\ ev[1].args[1].kind = "Other"
    /\ ev[1].args[1].id
    /\ ev[1].args[1].notif # <<>>
    /\ status = "aborted"
    /\ hres.out = <<MsgUnknownKind>>

\* sender and args present, kind Added, and the notification resolved
ResolvedAdded ==
    /\ HasArgs
    /\ ev[1].args[1].kind = "Added"
    /\ ev[1].args[1].id
    /\ ev[1].args[1].notif # <<>>

ExtractionFails ==
    \/ TheNotif.name.fail # ""
    \/ TheNotif.time.fail # ""
    \/ TheNotif.elems.fail # ""

ExtractionFailureInRangeIsError ==
    (/\ Handled /\ ResolvedAdded /\ ExtractionFails
     /\ \/ TheNotif.name.fail # ""
        \/ TheNotif.time.fail # ""
        \/ timestamp_opt(TheNotif.time.val).some) =>
        /\ hres.res = "Err"
        /\ FormattedLines(hres.out) = {}
        /\ status = "running"
        /\ registered = {1}

\* C14: for a handled Added event with sender and args present, a failure of
\* resolving the notification by its id, obtaining the id included, made the
\* handler log, print no formatted line and return success.
C14_UnresolvedIsNoOp ==
    (/\ Handled /\ HasArgs /\ ev[1].args[1].kind = "Added"
     /\ (~ev[1].args[1].id \/ ev[1].args[1].notif = <<>>)) =>
        /\ hres.res = "Ok"
        /\ hres.out = <<MsgUnresolved>>
        /\ FormattedLines(hres.out) = {}

\* The same for a failing GetNotification alone (a lemma, for the model).
GetNotificationFailureIsNoOp ==
    (/\ Handled /\ HasArgs /\ ev[1].args[1].kind = "Added"
     /\ ev[1].args[1].id /\ ev[1].args[1].notif = <<>>) =>
        /\ hres.res = "Ok"
        /\ hres.out = <<MsgUnresolved>>
        /\ FormattedLines(hres.out) = {}

\* the window is being created or its message loop is running
InMessageLoop ==
    pc \in {"run", "create_setup", "create_store", "create_locked", "loop"}

\* what shows that main's own setup_listener() has run
SecondSubscribeSeen ==
    \/ boot # <<>>
    \/ Len(handles) > 1
    \/ Cardinality(RegisterCalls) > 1
    \/ Cardinality({i \in 1..Len(stdout) : stdout[i] = "got listener"}) > 1
    \/ fatal = <<"explicit panic">>

ConfirmationPrinted == \E i \in 1..Len(stdout) : stdout[i] = "Listener registered"

\* C15: main issues its second subscribe only after the message loop returned
\* normally; when the message loop returned an error the program showed the
\* error dialog and ended with status 1, with no second subscribe and no
\* confirmation printed.
C15_SecondSubscribeAfterLoop ==
    /\ InMessageLoop => (~SecondSubscribeSeen /\ ~ConfirmationPrinted)
    /\ fatal = <<HostError("run_main").msg>> =>
          /\ status = "exit1"
          /\ dialogs[Len(dialogs)] = ErrorDialog(HostError("run_main"))
          /\ ~SecondSubscribeSeen
          /\ ~ConfirmationPrinted

\* the loop failed after the window had subscribed
C15_Witness ==
    /\ fatal = <<HostError("run_main").msg>>
    /\ status = "exit1"
    /\ token_ptr # <<>>
    /\ Cardinality(RegisterCalls) = 1

\* the creation callback's setup_listener() returned Ok
WindowSubscribed ==
    \E i \in RegisterCalls : hostCalls[i].ok /\ hostCalls[i].by = 1

UnregisterCalls == {i \in 1..Len(hostCalls) : hostCalls[i].op = "unregister"}

\* C16 as stated: in every state the window's token container holds a token if
\* and only if the creation callback's subscribe succeeded; a failed subscribe
\* creates no handle and no unregister call; never more than one token.
C16_TokenIffSubscribed ==
    /\ token_ptr # <<>> <=> WindowSubscribed
    /\ ~WindowSubscribed => (handles = <<>> /\ UnregisterCalls = {})
    /\ Len(token_ptr) <= 1

\* C16, amended: the container holds at most one token, and only the token the
\* creation callback's successful register returned; it is empty before the
\* callback and after a failed subscribe, which creates no handle and no
\* unregister call; after a successful subscribe it is empty only between the
\* register call and the store, and once the window's handle was dropped.
C16_TokenOnlyIfSubscribed ==
    /\ Len(token_ptr) <= 1
    /\ token_ptr # <<>> =>
          /\ WindowSubscribed
          /\ token_ptr = <<1>>
          /\ \E i \in RegisterCalls :
                hostCalls[i].by = 1 /\ hostCalls[i].token = handles[1].token
    /\ pc \in {"run", "create_setup"} => token_ptr = <<>>
    /\ ~WindowSubscribed =>
          (token_ptr = <<>> /\ handles = <<>> /\ UnregisterCalls = {})
    /\ (WindowSubscribed /\ token_ptr = <<>>) =>
          \/ pc \in {"create_store", "create_locked"}
          \/ handles[1].state # "alive"

\* the token is stored and the message loop runs
C16_Witness ==
    /\ pc = "loop"
    /\ token_ptr = <<1>>
    /\ WindowSubscribed
    /\ handles[1].token \in registered

\* C17: whenever a registration is active the handler can run, also while the
\* GUI thread holds the lock of the token container, and a step in which the
\* handler produces its result leaves the token container, the subscriptions
\* and the GUI thread's state as they were.
C17_HandlerLeavesStateAlone ==
    /\ []((status = "running" /\ registered # {})
            => ENABLED (\E e \in LifeEvents : Deliver(e)))
    /\ [][hres' # hres
            => UNCHANGED <<pc, token_ptr, boot, handles, registered, hostCalls,
                           access, dialogs, stdout>>]_vars

\* an event was handled between the register call and the store, while the GUI
\* thread held the lock
C17_Witness ==
    /\ pc = "create_locked"
    /\ token_ptr = <<>>
    /\ registered # {}
    /\ hres.res = "Ok"
    /\ status = "running"

\* C18: after main's second subscribe succeeded, the confirmation is printed
\* while that registration is active, and when main has returned its token has
\* been unregistered, once, and is registered no more.
C18_BootstrapTokenReleased ==
    /\ (status = "running" /\ pc = "return") =>
          /\ boot # <<>>
          /\ stdout[Len(stdout)] = "Listener registered"
          /\ handles[boot[1]].state = "alive"
          /\ handles[boot[1]].token \in registered
    /\ status = "returned" =>
          /\ ConfirmationPrinted
          /\ Len(handles) = 2
          /\ handles[2].state = "released"
          /\ handles[2].token \notin registered
          /\ Cardinality({i \in CallsOf(2, "unregister") :
                             hostCalls[i].ok /\ hostCalls[i].token = handles[2].token}) = 1

\* main returned while the window's token was never released
C18_Witness ==
    /\ status = "returned"
    /\ handles[1].state = "alive"
    /\ handles[2].state = "released"
    /\ registered = {handles[1].token}

\* C19: a handled Added event whose notification resolved and whose creation
\* time was read did not abort the process, whatever the creation time.
C19_AnyCreationTimeNoAbort ==
    (/\ Handled /\ ResolvedAdded
     /\ TheNotif.name.fail = "" /\ TheNotif.time.fail = "") =>
        (hres.res # "Panic" /\ status # "aborted")

=============================================================================
